---- MODULE Spec2Model ----
(***************************************************************************)
(* The stream response cache of the store client (grpccache) and its      *)
(* cache backend: the interceptor's constructor, the call selection, the  *)
(* per-call SendMsg / RecvMsg handlers, and the chunked entry encoding.   *)
(*                                                                         *)
(* Byte slices and keys are sequences of one-character strings and call   *)
(* identifiers are sequences of path tokens, so that formatting, parsing  *)
(* and splitting are computed, not assumed.                               *)
(***************************************************************************)
EXTENDS Integers, Sequences, FiniteSets, TLC

\* ------------------------------------------------------------------ bounds
\* Reads one call may make.
MaxReads == 3
\* Distinct response message contents the transport can deliver.
NMsgVals == 2
\* Distinct request contents a caller can send.
NReqs == 1

\* The calls of the model: each runs in its own goroutine.
Calls == {1, 2, 3}
\* The call the single-call specifications follow.
Solo == {1}
Msgs == 1..NMsgVals
Reqs == 1..NReqs
\* An outbound message that is not a *storepb.SeriesRequest.
NotARequest == 0

\* ----------------------------------------------------------- text helpers
Digits == <<"0", "1", "2", "3", "4", "5", "6", "7", "8", "9">>

IsDigit(ch) == \E i \in 1..10 : Digits[i] = ch

DigitVal(ch) == (CHOOSE i \in 1..10 : Digits[i] = ch) - 1

RECURSIVE FormatNat(_)
\* fmt's %d of a natural number: its decimal digits, most significant first.
FormatNat(n) == IF n < 10 THEN <<Digits[n + 1]>>
                ELSE FormatNat(n \div 10) \o <<Digits[(n % 10) + 1]>>

\* fmt.Sprintf("%d", n).
FormatInt(n) == IF n < 0 THEN <<"-">> \o FormatNat(0 - n) ELSE FormatNat(n)

RECURSIVE ParseNat(_)
\* The value of a non-empty sequence of decimal digits.
ParseNat(ds) == IF Len(ds) = 1 THEN DigitVal(ds[1])
                ELSE 10 * ParseNat(SubSeq(ds, 1, Len(ds) - 1)) + DigitVal(ds[Len(ds)])

\* The length of the longest prefix of s made of digits.
DigitRun(s) == CHOOSE k \in 0..Len(s) :
                 /\ \A i \in 1..k : IsDigit(s[i])
                 /\ (k < Len(s) => ~IsDigit(s[k + 1]))

\* fmt.Sscanf(s, "%d", &numKeys): an optional sign, then the longest run of
\* digits; input left over after the number is not an error. ok stands for
\* n = 1 && err == nil.
Sscanf(s) ==
  LET signed == s # <<>> /\ s[1] \in {"-", "+"}
      rest == IF signed THEN Tail(s) ELSE s
      k == DigitRun(rest)
      mag == IF k = 0 THEN 0 ELSE ParseNat(SubSeq(rest, 1, k))
  IN  [ok |-> k > 0,
       val |-> IF signed /\ s[1] = "-" THEN 0 - mag ELSE mag]

\* ------------------------------------------------------------ wire format
\* (*SeriesResponse).Marshal: the message's wire bytes.
Marshal(m) == <<"pb">> \o FormatNat(m)

\* (*SeriesResponse).Unmarshal: no bytes are the empty message (0), other
\* bytes that are no message fail.
Unmarshal(b) ==
  IF b = <<>> THEN [ok |-> TRUE, msg |-> 0]
  ELSE IF Len(b) >= 2 /\ b[1] = "pb" /\ DigitRun(Tail(b)) = Len(b) - 1
  THEN [ok |-> TRUE, msg |-> ParseNat(Tail(b))]
  ELSE [ok |-> FALSE, msg |-> 0]

\* Width of the modelled request fingerprint (xxhash is 64 bits wide).
HashMod == 5
HashBytes == <<"A", "B", "C", "D", "E", "F", "G", "H">>

\* The connection's target, as bytes.
Target == <<7>>

\* (*SeriesRequest).Marshal, as byte values.
MarshalReq(r) == <<10, r>>

RECURSIVE Digest(_, _)
\* The running hash over a byte sequence.
Digest(h, bs) == IF bs = <<>> THEN h
                 ELSE Digest((h * 3 + Head(bs)) % HashMod, Tail(bs))

\* hashReqTarget: the hash of the target followed by the marshalled request,
\* as a (never empty) string.
hashReqTarget(r, target) == <<HashBytes[Digest(0, target \o MarshalReq(r)) + 1]>>

\* fmt.Sprintf("%s-num", reqSig)
NumKey(reqSig) == reqSig \o <<"-", "n", "u", "m">>

\* fmt.Sprintf("%s-%d", reqSig, i)
IdxKey(reqSig, i) == reqSig \o <<"-">> \o FormatInt(i)

\* ------------------------------------------------------------- the backend
EmptyMap == [k \in {} |-> <<>>]

\* A map with key k set to v.
MapSet(f, k, v) == [x \in (DOMAIN f) \cup {k} |-> IF x = k THEN v ELSE f[x]]

\* A map without key k.
MapDel(f, k) == [x \in (DOMAIN f) \ {k} |-> f[x]]

\* InMemoryCache.Fetch: the requested keys that are present, with their bytes.
Fetch(contents, keys) == [k \in keys \cap DOMAIN contents |-> contents[k]]

\* cache.NewInMemoryCacheWithConfig: refuses an item size above the total size.
NewInMemoryCacheWithConfig(cfgMaxSize, cfgMaxItemSize) ==
  IF cfgMaxItemSize > cfgMaxSize THEN "err" ELSE "ok"

\* --------------------------------------------------------- chunked entries
\* getResponses, lines 22-32: the Fetch of the count key and its parse.
\* A count lookup that reads an absent count key as the count zero.
getNumKeysDefault(contents, reqSig) ==
  LET numKeysFetchRes == Fetch(contents, {NumKey(reqSig)})
  IN  IF NumKey(reqSig) \notin DOMAIN numKeysFetchRes
      THEN [ok |-> TRUE, val |-> 0]
      ELSE Sscanf(numKeysFetchRes[NumKey(reqSig)])

\* getResponses, lines 22-32: the Fetch of the count key and its parsing.
getNumKeys(contents, reqSig) ==
  LET numKeysFetchRes == Fetch(contents, {NumKey(reqSig)})
  IN  IF NumKey(reqSig) \notin DOMAIN numKeysFetchRes
      THEN [ok |-> FALSE, val |-> 0]
      ELSE Sscanf(numKeysFetchRes[NumKey(reqSig)])

\* The count check refusing only a surplus of entries.
WrongKeyCountLax(fetched, numKeys) == fetched > numKeys

\* getResponses, line 40: the entry is refused when the Fetch of the indexed
\* keys did not return numKeys entries.
WrongKeyCount(fetched, numKeys) == fetched # numKeys

\* getResponses, lines 34-56: the Fetch of the numKeys indexed keys, the count
\* check and the deserialization in index order.
getIndexed(contents, reqSig, numKeys) ==
  LET fetchKeys == {IdxKey(reqSig, i) : i \in 0..(numKeys - 1)}
      fetchedData == Fetch(contents, fetchKeys)
      data(i) == IF IdxKey(reqSig, i) \in DOMAIN fetchedData
                 THEN fetchedData[IdxKey(reqSig, i)] ELSE <<>>
      r(i) == Unmarshal(data(i))
  IN  IF WrongKeyCount(Cardinality(DOMAIN fetchedData), numKeys)
      THEN [ok |-> FALSE, ret |-> <<>>]
      ELSE IF \E i \in 0..(numKeys - 1) : ~r(i).ok
      THEN [ok |-> FALSE, ret |-> <<>>]
      ELSE [ok |-> TRUE, ret |-> [j \in 1..numKeys |-> r(j - 1).msg]]

\* putResponses with the messages indexed from the last one back.
putResponsesReversed(reqSig, responses) ==
  LET n == Len(responses)
      keys == {NumKey(reqSig)} \cup {IdxKey(reqSig, i) : i \in 0..(n - 1)}
      at(k) == CHOOSE i \in 0..(n - 1) : IdxKey(reqSig, i) = k
  IN  [k \in keys |-> IF k = NumKey(reqSig) THEN FormatInt(n)
                      ELSE Marshal(responses[n - at(k)])]

\* putResponses: the batch of one entry, the count key and one key per message.
putResponses(reqSig, responses) ==
  LET n == Len(responses)
      keys == {NumKey(reqSig)} \cup {IdxKey(reqSig, i) : i \in 0..(n - 1)}
      at(k) == CHOOSE i \in 0..(n - 1) : IdxKey(reqSig, i) = k
  IN  [k \in keys |-> IF k = NumKey(reqSig) THEN FormatInt(n)
                      ELSE Marshal(responses[at(k) + 1])]

\* --------------------------------------------------------- call selection
\* strings.TrimPrefix(s, "/")
TrimPrefix(s) == IF s # <<>> /\ Head(s) = "/" THEN Tail(s) ELSE s

\* strings.Index(s, "/"), counted from 1; 0 when there is none.
Index(s) == IF \E i \in 1..Len(s) : s[i] = "/"
            THEN CHOOSE i \in 1..Len(s) : s[i] = "/" /\ \A j \in 1..(i - 1) : s[j] # "/"
            ELSE 0

\* splitMethodName without the removal of the leading slash.
splitMethodNameUntrimmed(fullMethod) ==
  LET i == Index(fullMethod)
  IN  IF i > 0 THEN <<SubSeq(fullMethod, 1, i - 1),
                      SubSeq(fullMethod, i + 1, Len(fullMethod))>>
      ELSE <<(<<"unknown">>), (<<"unknown">>)>>

\* splitMethodName: the service and the method of "/service/method".
splitMethodName(fullMethod) ==
  LET t == TrimPrefix(fullMethod)
      i == Index(t)
  IN  IF i > 0 THEN <<SubSeq(t, 1, i - 1), SubSeq(t, i + 1, Len(t))>>
      ELSE <<(<<"unknown">>), (<<"unknown">>)>>

\* The call identifiers a caller opens streams with.
Methods == { <<"/", "thanos.Store", "/", "Series">>,
             <<"thanos.Store", "/", "Series">>,
             <<"/", "thanos.Store", "/", "Info">>,
             <<"/", "thanos.Rules", "/", "Series">>,
             <<"/", "thanos.Store", "/", "Series", "/", "x">>,
             <<"/", "/", "thanos.Store", "/", "Series">>,
             <<"thanos.Store">> }

\* The closure without its passthrough test.
InterceptedAlways(isPassthrough, method, streamErr) ==
  IF streamErr THEN "failed"
  ELSE IF splitMethodName(method) = <<(<<"thanos.Store">>), (<<"Series">>)>>
  THEN "wrapped"
  ELSE "raw"

\* GetInterceptor's closure: what it returns for a call, "failed" for the
\* streamer's stream and error, "raw" for the underlying stream itself,
\* "wrapped" for a seriesInterceptor around it.
Intercepted(isPassthrough, method, streamErr) ==
  IF streamErr THEN "failed"
  ELSE IF isPassthrough THEN "raw"
  ELSE IF splitMethodName(method) = <<(<<"thanos.Store">>), (<<"Series">>)>>
  THEN "wrapped"
  ELSE "raw"

\* ------------------------------------------------------------------ state
VARIABLES
  built,          \* "unbuilt", "ok" or "err": NewSeriesRequestcachingInterceptor's result
  maxSize,        \* the maxSize it was given
  passthrough,    \* SeriesRequestCachingInterceptor.passthrough
  inmemoryCache,  \* the number of InMemoryCache instances constructed
  cachedCalls,    \* the counter thanos_grpc_cached_calls_total
  cache,          \* the InMemoryCache's contents: key -> bytes
  call,           \* per call: the stream the caller holds and its seriesInterceptor
  written,        \* history: per fingerprint, the sequence whose entry, stored whole
                  \* by one Store and untouched since, the cache holds (or Unknown)
  obs,            \* history: what has ever been done (hashing, Fetch, Store)
  db,             \* BadgerIndexCache.db: the disk store's contents, key -> value
  ic,             \* the calls BadgerIndexCache.ic received from the last operation
  op,             \* history: the last operation on the tiered cache, its arguments
  ret,            \* what that operation returned, and the caller's slice after it
  requests,       \* RueidisCache.requests: thanos_cache_redis_requests_total
  hits,           \* RueidisCache.hits: thanos_cache_redis_hits_total
  redis,          \* the remote service's contents: key -> value
  fetch,          \* per goroutine: its RueidisCache.Fetch, where it stands
  maxElements,    \* LookupTableBuilder.maxElements
  current,        \* LookupTableBuilder.current
  table,          \* LookupTableBuilder.table: reference -> string
  reverseTable,   \* LookupTableBuilder.reverseTable: string -> reference
  put             \* history: the last call on the builder and what it returned

grpcVars == <<built, maxSize, passthrough, inmemoryCache, cachedCalls, cache, call,
              written, obs>>
tierVars == <<db, ic, op, ret>>
remoteVars == <<requests, hits, redis, fetch>>
builderVars == <<maxElements, current, table, reverseTable, put>>
unitVars == <<tierVars, remoteVars, builderVars>>
vars == <<grpcVars, unitVars>>

\* The sizes a configuration can name.
MaxBytes == 1

\* Send attempts one call may make.
MaxSends == 2

\* Lookups that may succeed in one run: no stream is opened after that many.
MaxHits == 1

\* An outcome of a send or of a read, as the caller or the transport sees it:
\* k is "none", "nil", "msg" (v the message), "EOF" or "err" (v the error).
Out(k, v) == [k |-> k, v |-> v]
NoOut == Out("none", 0)
EOF == Out("EOF", 0)

\* What the transport's RecvMsg can produce.
RecvOutcomes == {Out("msg", v) : v \in Msgs} \cup {EOF, Out("err", 1)}

\* What the transport's SendMsg can produce.
SendOutcomes == {Out("nil", 0), Out("err", 2)}

\* The fingerprints of the requests of the model.
Sigs == {hashReqTarget(r, Target) : r \in Reqs}

\* The fingerprint a key belongs to.
KeySig(k) == <<Head(k)>>

\* No single recorded sequence accounts for the bytes.
Unknown == <<0>>

\* putResponses, line 69: the time-to-live of a stored entry, in seconds.
StoreTTL == 5 * 60

\* A call before its stream is opened.
NewCall ==
  [st |-> "none", method |-> <<>>, streamErr |-> FALSE,
   hashedReq |-> <<>>, responses |-> <<>>, cachedResponsesAvailable |-> FALSE,
   pc |-> "idle", numKeys |-> 0, m |-> 0, batch |-> EmptyMap,
   \* history of the call, read by the properties only
   given |-> 0, fwd |-> 0, sent |-> 0, nRecv |-> 0, tRecv |-> 0,
   op |-> "none", out |-> NoOut, tout |-> NoOut,
   got |-> <<>>, delivered |-> <<>>, replayReads |-> 0,
   seenCount |-> <<"?">>, seenSrc |-> Unknown, hitEntry |-> Unknown,
   partial |-> FALSE, errored |-> FALSE, stored |-> EmptyMap, whole |-> FALSE,
   ttl |-> 0]

\* Before NewSeriesRequestcachingInterceptor has run.
InitUnbuilt ==
  /\ built = "unbuilt"
  /\ maxSize = 0
  /\ passthrough = FALSE
  /\ inmemoryCache = 0
  /\ cachedCalls = 0
  /\ cache = EmptyMap
  /\ call = [c \in Calls |-> NewCall]
  /\ written = [s \in Sigs |-> Unknown]
  /\ obs = [hashed |-> FALSE, fetched |-> FALSE, stored |-> FALSE]

\* ------------------------------------------------------------ construction
\* The constructor building no backend when the size is zero.
NewInterceptorLazyBackend(size, itemSize) ==
  LET res == IF size = 0 THEN "ok" ELSE NewInMemoryCacheWithConfig(size, itemSize)
  IN  /\ built = "unbuilt"
      /\ built' = res
      /\ maxSize' = size
      /\ inmemoryCache' = IF res = "ok" /\ size # 0
                          THEN inmemoryCache + 1 ELSE inmemoryCache
      /\ passthrough' = (res = "ok" /\ size = 0)
      /\ UNCHANGED <<cachedCalls, cache, call, written, obs>>

\* NewSeriesRequestcachingInterceptor(reg, maxSize, maxItemSize).
NewSeriesRequestcachingInterceptor(size, itemSize) ==
  LET item == IF size = 0 THEN 0 ELSE itemSize
      res == NewInMemoryCacheWithConfig(size, item)
  IN  /\ built = "unbuilt"
      /\ built' = res
      /\ maxSize' = size
      /\ inmemoryCache' = IF res = "ok" THEN inmemoryCache + 1 ELSE inmemoryCache
      /\ passthrough' = (res = "ok" /\ size = 0)
      /\ UNCHANGED <<cachedCalls, cache, call, written, obs>>

\* The stream interceptor GetInterceptor returns, run for one call.
Intercept(c, method, streamErr) ==
  /\ built = "ok"
  /\ call[c].st = "none"
  /\ cachedCalls < MaxHits
  /\ call' = [call EXCEPT ![c].st = Intercepted(passthrough, method, streamErr),
                          ![c].method = method,
                          ![c].streamErr = streamErr]
  /\ UNCHANGED <<built, maxSize, passthrough, inmemoryCache, cachedCalls, cache,
                 written, obs>>

\* The call is over: its stream and its seriesInterceptor are dropped.
Close(c) ==
  /\ call[c].st # "none"
  /\ call[c].pc = "idle"
  /\ call' = [call EXCEPT ![c] = NewCall]
  /\ UNCHANGED <<built, maxSize, passthrough, inmemoryCache, cachedCalls, cache,
                 written, obs>>

\* --------------------------------------------------- the underlying stream
\* The caller sends on a stream it was handed unwrapped.
RawSendMsg(c) ==
  /\ call[c].st = "raw"
  /\ call[c].given = 0
  /\ call' = [call EXCEPT ![c].given = 1, ![c].fwd = 1]
  /\ UNCHANGED <<built, maxSize, passthrough, inmemoryCache, cachedCalls, cache,
                 written, obs>>

\* The caller reads from a stream it was handed unwrapped.
RawRecvMsg(c) ==
  /\ call[c].st = "raw"
  /\ call[c].nRecv = 0
  /\ call' = [call EXCEPT ![c].nRecv = 1, ![c].tRecv = 1]
  /\ UNCHANGED <<built, maxSize, passthrough, inmemoryCache, cachedCalls, cache,
                 written, obs>>

\* ----------------------------------------------------------------- SendMsg
\* A send that reports success whatever the transport said.
SendReturnNil(tres) == Out("nil", 0)

\* SendMsg, line 144: the transport's result is the send's result.
SendReturn(tres) == tres

\* The call record after the outbound message m went to the transport.
Forwarded(rec, m, tres) ==
  [rec EXCEPT !.pc = "idle", !.fwd = @ + 1, !.sent = m,
              !.op = "send", !.out = SendReturn(tres), !.tout = tres]

\* SendMsg up to the first Fetch of getResponses: a message that is no
\* SeriesRequest goes straight to the transport; for a request the fingerprint
\* is set and the count key fetched and parsed. A failed lookup forwards at
\* once, a negative count aborts in make([]string, 0, numKeys), any other
\* count leaves the second Fetch to do.
SendMsg(c, m, tres) ==
  LET rec == call[c]
      sig == hashReqTarget(m, Target)
      nk == getNumKeys(cache, sig)
      seen == [rec EXCEPT !.given = @ + 1, !.m = m, !.hashedReq = sig,
                 !.seenCount = IF NumKey(sig) \in DOMAIN cache
                               THEN cache[NumKey(sig)] ELSE <<"?">>,
                 !.seenSrc = written[sig],
                 !.partial = FALSE]
  IN  /\ rec.st = "wrapped"
      /\ rec.pc = "idle"
      /\ rec.given < MaxSends
      /\ IF m = NotARequest
         THEN /\ call' = [call EXCEPT ![c] =
                            Forwarded([rec EXCEPT !.given = @ + 1, !.m = m], m, tres)]
              /\ obs' = obs
         ELSE /\ call' = [call EXCEPT ![c] =
                            IF ~nk.ok THEN Forwarded(seen, m, tres)
                            ELSE IF nk.val < 0 THEN [seen EXCEPT !.pc = "panic"]
                            ELSE [seen EXCEPT !.pc = "fetch2", !.numKeys = nk.val]]
              /\ obs' = [obs EXCEPT !.hashed = TRUE, !.fetched = TRUE]
      /\ UNCHANGED <<built, maxSize, passthrough, inmemoryCache, cachedCalls, cache,
                     written>>

\* The one SendMsg of the generated Series client, which sends its request
\* and closes the sending side.
FirstSendMsg(c, m, tres) == call[c].given = 0 /\ SendMsg(c, m, tres)

\* SendMsg from the second Fetch of getResponses on: on a complete entry the
\* buffer is replaced, the call marked and the counter incremented; in every
\* case the message then goes to the transport.
SendMsgFetch2(c, tres) ==
  LET rec == call[c]
      r == getIndexed(cache, rec.hashedReq, rec.numKeys)
      keys == {IdxKey(rec.hashedReq, i) : i \in 0..(rec.numKeys - 1)}
      short == Cardinality(keys \cap DOMAIN cache) # rec.numKeys
      hit == [rec EXCEPT !.responses = r.ret, !.partial = short,
                         !.cachedResponsesAvailable = TRUE,
                         !.delivered = <<>>, !.replayReads = 0,
                         !.hitEntry = IF written[rec.hashedReq] = rec.seenSrc
                                      THEN rec.seenSrc ELSE Unknown]
      miss == [rec EXCEPT !.partial = short]
  IN  /\ rec.pc = "fetch2"
      /\ call' = [call EXCEPT ![c] = Forwarded(IF r.ok THEN hit ELSE miss, rec.m, tres)]
      /\ cachedCalls' = IF r.ok THEN cachedCalls + 1 ELSE cachedCalls
      /\ UNCHANGED <<built, maxSize, passthrough, inmemoryCache, cache, written, obs>>

\* ----------------------------------------------------------------- RecvMsg
\* A replaying read that leaves the delivered message in the buffer.
ReplayNextKeep(responses) ==
  IF Len(responses) = 0 THEN [out |-> EOF, rest |-> responses]
  ELSE [out |-> Out("msg", Head(responses)), rest |-> responses]

\* RecvMsg, lines 107-118: a read of a call whose cached responses are
\* available: the result and the buffer left.
ReplayNext(responses) ==
  IF Len(responses) = 0 THEN [out |-> EOF, rest |-> responses]
  ELSE [out |-> Out("msg", Head(responses)), rest |-> Tail(responses)]

\* A read that persists the buffer at every end-of-stream.
PersistsEmpty(err, responses) == err = EOF

\* RecvMsg, line 121: whether a failed transport read persists the buffer.
Persists(err, responses) == err = EOF /\ Len(responses) > 0

\* A recording read that reports every failure as end-of-stream.
RecordReturnMasked(tres) == IF tres.k = "err" THEN EOF ELSE tres

\* RecvMsg, lines 120-129: what a recording read returns for the transport's
\* result.
RecordReturn(tres) == tres

\* RecvMsg: before any request was hashed the transport's read is the read;
\* with cached responses the buffer is served; otherwise the transport is
\* read, a message appended to the buffer, and on end-of-stream with a
\* non-empty buffer the entry is handed to Store before the error returns.
RecvMsg(c, tres) ==
  LET rec == call[c]
      read == [rec EXCEPT !.nRecv = @ + 1, !.op = "recv", !.tout = NoOut]
      viaT == [read EXCEPT !.tRecv = @ + 1, !.tout = tres]
      nxt == ReplayNext(rec.responses)
      entry == putResponses(rec.hashedReq, rec.responses)
  IN  /\ rec.st = "wrapped"
      /\ rec.pc = "idle"
      /\ rec.nRecv < MaxReads
      /\ IF rec.hashedReq = <<>>
         THEN /\ call' = [call EXCEPT ![c] = [viaT EXCEPT !.out = tres]]
              /\ obs' = obs
         ELSE IF rec.cachedResponsesAvailable
         THEN /\ call' = [call EXCEPT ![c] =
                   [read EXCEPT !.out = nxt.out, !.responses = nxt.rest,
                                !.replayReads = @ + 1,
                                !.delivered = IF nxt.out.k = "msg"
                                              THEN Append(@, nxt.out.v) ELSE @]]
              /\ obs' = obs
         ELSE IF tres.k = "msg"
         THEN /\ call' = [call EXCEPT ![c] =
                   [viaT EXCEPT !.out = RecordReturn(tres),
                                !.responses = Append(@, tres.v),
                                !.got = Append(@, tres.v)]]
              /\ obs' = obs
         ELSE IF Persists(tres, rec.responses)
         THEN /\ call' = [call EXCEPT ![c] =
                   [viaT EXCEPT !.out = RecordReturn(tres),
                                !.pc = "storing", !.batch = entry,
                                !.stored = entry, !.whole = TRUE,
                                !.ttl = StoreTTL]]
              /\ obs' = [obs EXCEPT !.stored = TRUE]
         ELSE /\ call' = [call EXCEPT ![c] =
                   [viaT EXCEPT !.out = RecordReturn(tres),
                                !.errored = (@ \/ tres.k = "err")]]
              /\ obs' = obs
      /\ UNCHANGED <<built, maxSize, passthrough, inmemoryCache, cachedCalls, cache,
                     written>>

\* The calls' records after the keys of fingerprint sig were touched by
\* something other than call c's own Store: an entry another call is storing
\* under sig is no longer the work of one Store alone.
Touched(calls, c, sig) ==
  [d \in Calls |-> IF d # c /\ calls[d].pc = "storing" /\ calls[d].hashedReq = sig
                   THEN [calls[d] EXCEPT !.whole = FALSE] ELSE calls[d]]

\* InMemoryCache.Store, one key of the batch at a time in any order: the key
\* is set, or dropped when the cache does not take it. The read that handed
\* the batch over returns after the last key.
StoreKey(c, k, taken) ==
  LET rec == call[c]
      last == DOMAIN rec.batch = {k}
      ok == rec.whole /\ taken
  IN  /\ rec.pc = "storing"
      /\ k \in DOMAIN rec.batch
      /\ cache' = IF taken THEN MapSet(cache, k, rec.batch[k]) ELSE cache
      /\ call' = [Touched(call, c, rec.hashedReq) EXCEPT
                    ![c].batch = MapDel(@, k),
                    ![c].whole = ok,
                    ![c].pc = IF last THEN "idle" ELSE "storing"]
      /\ written' = [written EXCEPT ![rec.hashedReq] =
                       IF last /\ ok THEN rec.got ELSE Unknown]
      /\ UNCHANGED <<built, maxSize, passthrough, inmemoryCache, cachedCalls, obs>>

\* The InMemoryCache drops a key: its time-to-live ran out, or it was evicted.
Evict(k) ==
  /\ k \in DOMAIN cache
  /\ cache' = MapDel(cache, k)
  /\ call' = Touched(call, 0, KeySig(k))
  /\ written' = [written EXCEPT ![KeySig(k)] = Unknown]
  /\ UNCHANGED <<built, maxSize, passthrough, inmemoryCache, cachedCalls, obs>>

\* A call outside the ones followed, recording the sequence seq under sig,
\* stores one key of its entry.
OtherStoreKey(sig, seq, k) ==
  /\ built = "ok"
  /\ ~passthrough
  /\ k \in DOMAIN putResponses(sig, seq)
  /\ cache' = MapSet(cache, k, putResponses(sig, seq)[k])
  /\ call' = Touched(call, 0, sig)
  /\ written' = [written EXCEPT ![sig] = Unknown]
  /\ UNCHANGED <<built, maxSize, passthrough, inmemoryCache, cachedCalls, obs>>

\* The non-empty sequences of messages a call can record.
Recordable == UNION {[1..n -> Msgs] : n \in 1..(MaxReads - 1)}

\* ------------------------------------------------- the tiered index cache
\* Block identifiers and posting values of the model.
NBlocks == 2
NVals == 2
Blocks == 1..NBlocks
Vals == 1..NVals

\* The longest label slice a caller passes.
MaxLabels == 3

\* The series references of the model.
NRefs == 2
Refs == 1..NRefs

Label(n, v) == [Name |-> n, Value |-> v]
NoLabel == Label("", "")

\* The label FetchMultiPostings looks up in the disk store.
coreLabel == Label("app", "core")

Labels == {coreLabel, Label("app", "web"), Label("job", "core")}

\* The elements of a slice.
Elems(s) == {s[i] : i \in 1..Len(s)}

\* Slices whose elements are pairwise different.
Slices(S, max) ==
  UNION {{s \in [1..n -> S] : \A i, j \in 1..n : s[i] = s[j] => i = j} : n \in 0..max}

\* A requested label set, as the slice the caller holds.
LabelSlices == Slices(Labels, MaxLabels)
RefSlices == Slices(Refs, NRefs)

\* The key of a block's postings for a label.
cacheKeyPostings(l) == <<"P", l.Name, l.Value>>
cacheKey(blockID, k) == <<blockID>> \o k

\* StorePostings' test of the label, taking every label named "app".
RoutedByName(l) == l.Name = "app"

\* StorePostings' test of the label.
Routed(l) == l.Name = "app" /\ l.Value = "core"

\* A call the fallback index cache receives, and an operation of the tiered
\* cache with its arguments; disk is what the disk lookup came to: "none",
\* "hit", "notfound", "geterr" or "copyerr".
IcCall(name, blockID, l, v, lbls, ids) ==
  [name |-> name, blockID |-> blockID, l |-> l, v |-> v, lbls |-> lbls, ids |-> ids]
TierOp(name, blockID, l, v, lbls, ids, disk) ==
  [name |-> name, blockID |-> blockID, l |-> l, v |-> v, lbls |-> lbls,
   ids |-> ids, disk |-> disk]
NoTierOp == TierOp("none", 0, NoLabel, 0, <<>>, <<>>, "none")

\* What a fetch returned, and the caller's slice as the call left it.
Ret(h, ms, lbls) == [hits |-> h, misses |-> ms, lbls |-> lbls]

TierIdle ==
  /\ db = EmptyMap
  /\ ic = <<>>
  /\ op = NoTierOp
  /\ ret = Ret(EmptyMap, <<>>, <<>>)

StorePostings(blockID, l, v) ==
  /\ op' = TierOp("StorePostings", blockID, l, v, <<>>, <<>>, "none")
  /\ IF Routed(l)
     THEN /\ db' = MapSet(db, cacheKey(blockID, cacheKeyPostings(l)), v)
          /\ ic' = <<>>
     ELSE /\ db' = db
          /\ ic' = <<IcCall("StorePostings", blockID, l, v, <<>>, <<>>)>>
  /\ ret' = Ret(EmptyMap, <<>>, <<>>)

\* The position of the first element equal to coreLabel, or 0.
FirstCore(lbls) ==
  IF \E i \in 1..Len(lbls) : lbls[i] = coreLabel
  THEN CHOOSE i \in 1..Len(lbls) :
         lbls[i] = coreLabel /\ \A j \in 1..(i - 1) : lbls[j] # coreLabel
  ELSE 0

\* The loop that takes coreLabel out of lbls: array is the backing array the
\* caller's slice shares, lbls the slice the function goes on with.
ExtractCore(lbls) ==
  LET i == FirstCore(lbls)
      n == Len(lbls)
      moved == [lbls EXCEPT ![i] = lbls[n]]
  IN  IF i = 0
      THEN [array |-> lbls, lbls |-> lbls, foundCore |-> FALSE]
      ELSE [array |-> moved, lbls |-> SubSeq(moved, 1, n - 1), foundCore |-> TRUE]

\* What the engine can do to a lookup: nothing, fail the get, fail the copy.
DiskFaults == {"none", "get", "copy"}

\* The read transaction on the disk store.
View(contents, blockID, fault) ==
  LET key == cacheKey(blockID, cacheKeyPostings(coreLabel))
  IN  IF fault = "get"
      THEN [disk |-> "geterr", extraHits |-> EmptyMap, extraMisses |-> <<>>]
      ELSE IF key \notin DOMAIN contents
      THEN [disk |-> "notfound", extraHits |-> EmptyMap,
            extraMisses |-> <<coreLabel>>]
      ELSE IF fault = "copy"
      THEN [disk |-> "copyerr", extraHits |-> EmptyMap, extraMisses |-> <<>>]
      ELSE [disk |-> "hit", extraHits |-> MapSet(EmptyMap, coreLabel, contents[key]),
            extraMisses |-> <<>>]

\* The fallback's answer to a fetch of the slice s: the elements in found
\* are hits with the value v, the others are misses in the order of s.
IcFetch(s, found, v) ==
  [hits |-> [x \in found |-> v],
   misses |-> SelectSeq(s, LAMBDA x : x \notin found)]

\* The fallback's result and the disk store's, put together.
Merge(icHits, icMisses, extraHits, extraMisses) ==
  [hits |-> [x \in (DOMAIN icHits) \cup (DOMAIN extraHits) |->
               IF x \in DOMAIN extraHits THEN extraHits[x] ELSE icHits[x]],
   misses |-> icMisses \o extraMisses]

FetchMultiPostings(blockID, lbls, fault, found, v) ==
  LET e == ExtractCore(lbls)
      d == IF e.foundCore THEN View(db, blockID, fault)
           ELSE [disk |-> "none", extraHits |-> EmptyMap, extraMisses |-> <<>>]
      f == IcFetch(e.lbls, found \cap Elems(e.lbls), v)
      r == Merge(f.hits, f.misses, d.extraHits, d.extraMisses)
  IN  /\ op' = TierOp("FetchMultiPostings", blockID, NoLabel, 0, lbls, <<>>, d.disk)
      /\ ic' = <<IcCall("FetchMultiPostings", blockID, NoLabel, 0, e.lbls, <<>>)>>
      /\ ret' = Ret(r.hits, r.misses, e.array)
      /\ db' = db

StoreSeries(blockID, id, v) ==
  /\ op' = TierOp("StoreSeries", blockID, NoLabel, v, <<>>, <<id>>, "none")
  /\ ic' = <<IcCall("StoreSeries", blockID, NoLabel, v, <<>>, <<id>>)>>
  /\ ret' = Ret(EmptyMap, <<>>, <<>>)
  /\ db' = db

FetchMultiSeries(blockID, ids, found, v) ==
  LET f == IcFetch(ids, found \cap Elems(ids), v)
  IN  /\ op' = TierOp("FetchMultiSeries", blockID, NoLabel, 0, <<>>, ids, "none")
      /\ ic' = <<IcCall("FetchMultiSeries", blockID, NoLabel, 0, <<>>, ids)>>
      /\ ret' = Ret(f.hits, f.misses, <<>>)
      /\ db' = db

\* ------------------------------------------------ the remote cache backend
\* The goroutines that call Fetch.
NGoroutines == 2
Goroutines == 1..NGoroutines

\* The keys of the model, and the longest key slice of a Fetch.
RKeys == {"a", "b"}
MaxKeys == 2

\* The key slices a caller passes: a key may come twice.
KeySlices == UNION {[1..n -> RKeys] : n \in 0..MaxKeys}

\* The batches a caller stores.
Batches == UNION {[S -> Vals] : S \in SUBSET RKeys}

\* The keys requested in one run: no Fetch starts beyond that many.
MaxRequests == 4

\* A goroutine outside Fetch: pc is "idle", "get" (requests counted, the
\* multi-get to do) or "hits" (results in hand, hits to count).
NoFetch ==
  [pc |-> "idle", keys |-> <<>>, results |-> EmptyMap, failed |-> FALSE,
   done |-> FALSE]

RemoteIdle ==
  /\ requests = 0
  /\ hits = 0
  /\ redis = EmptyMap
  /\ fetch = [g \in Goroutines |-> NoFetch]

\* RueidisCache.Store, RueidisClient.SetMulti: one SETEX per key of data, of
\* which those in taken succeed.
RueidisStore(data, taken) ==
  /\ taken \subseteq DOMAIN data
  /\ redis' = [k \in (DOMAIN redis) \cup taken |->
                 IF k \in taken THEN data[k] ELSE redis[k]]
  /\ UNCHANGED <<requests, hits, fetch>>

\* The remote service drops a key whose time-to-live ran out.
RueidisExpire(k) ==
  /\ k \in DOMAIN redis
  /\ redis' = MapDel(redis, k)
  /\ UNCHANGED <<requests, hits, fetch>>

\* A multi-get that returns an entry for every key asked, found or not.
GetMultiUnfiltered(keys, contents, fail) ==
  IF Len(keys) = 0 \/ fail THEN EmptyMap
  ELSE [k \in Elems(keys) |-> IF k \in DOMAIN contents THEN contents[k] ELSE 0]

\* RueidisClient.GetMulti: nothing for no keys; a failed MGET leaves resps
\* empty; otherwise each reply that is a string is entered under its key.
GetMulti(keys, contents, fail) ==
  IF Len(keys) = 0 \/ fail THEN EmptyMap
  ELSE [k \in Elems(keys) \cap DOMAIN contents |-> contents[k]]

\* RueidisCache.Fetch, line 61: the requested keys are counted.
RueidisFetch(g, keys) ==
  /\ fetch[g].pc = "idle"
  /\ requests + Len(keys) <= MaxRequests
  /\ requests' = requests + Len(keys)
  /\ fetch' = [fetch EXCEPT ![g] = [NoFetch EXCEPT !.pc = "get", !.keys = keys]]
  /\ UNCHANGED <<hits, redis>>

\* RueidisCache.Fetch, line 62: the multi-get.
RueidisGetMulti(g, fail) ==
  /\ fetch[g].pc = "get"
  /\ fetch' = [fetch EXCEPT ![g].pc = "hits",
                            ![g].failed = (fail /\ Len(fetch[g].keys) > 0),
                            ![g].results = GetMulti(fetch[g].keys, redis, fail)]
  /\ UNCHANGED <<requests, hits, redis>>

\* RueidisCache.Fetch, lines 63-64: the results are counted and returned.
RueidisHits(g) ==
  /\ fetch[g].pc = "hits"
  /\ hits' = hits + Cardinality(DOMAIN fetch[g].results)
  /\ fetch' = [fetch EXCEPT ![g].pc = "idle", ![g].done = TRUE]
  /\ UNCHANGED <<requests, redis>>

\* ------------------------------------------------ the lookup table builder
\* The largest maxElements a builder is made with.
MaxElems == 3

Strings == {"a", "b", "c", "d"}

MaxElementsReached == "max elements reached in lookup table builder"

\* A call on the builder and its result.
Put(name, s, num, err) == [op |-> name, s |-> s, num |-> num, err |-> err]

NewLookupTableBuilder(n) ==
  /\ maxElements = n
  /\ current = 0
  /\ table = EmptyMap
  /\ reverseTable = EmptyMap
  /\ put = Put("none", "", 0, "nil")

BuilderIdle == NewLookupTableBuilder(0)

\* PutString without the lookup of the string in the reverse table.
PutStringNoLookup(s) ==
  IF current >= maxElements
  THEN /\ put' = Put("PutString", s, 0, MaxElementsReached)
       /\ UNCHANGED <<maxElements, current, table, reverseTable>>
  ELSE /\ reverseTable' = MapSet(reverseTable, s, current)
       /\ table' = MapSet(table, current, s)
       /\ current' = current + 1
       /\ put' = Put("PutString", s, current' - 1, "nil")
       /\ UNCHANGED maxElements

PutString(s) ==
  IF current >= maxElements
  THEN /\ put' = Put("PutString", s, 0, MaxElementsReached)
       /\ UNCHANGED <<maxElements, current, table, reverseTable>>
  ELSE IF s \in DOMAIN reverseTable
  THEN /\ put' = Put("PutString", s, reverseTable[s], "nil")
       /\ UNCHANGED <<maxElements, current, table, reverseTable>>
  ELSE /\ reverseTable' = MapSet(reverseTable, s, current)
       /\ table' = MapSet(table, current, s)
       /\ current' = current + 1
       /\ put' = Put("PutString", s, current' - 1, "nil")
       /\ UNCHANGED maxElements

GetTable ==
  /\ put' = Put("GetTable", "", 0, "nil")
  /\ UNCHANGED <<maxElements, current, table, reverseTable>>

\* The units beside the one a specification runs, at rest.
UnitsIdle == TierIdle /\ RemoteIdle /\ BuilderIdle

\* ---------------------------------------------------------- specifications
\* The method the interceptor caches.
SeriesMethod == <<"/", "thanos.Store", "/", "Series">>

\* After NewSeriesRequestcachingInterceptor returned with caching enabled.
Init ==
  /\ built = "ok"
  /\ maxSize = 1
  /\ passthrough = FALSE
  /\ inmemoryCache = 1
  /\ cachedCalls = 0
  /\ cache = EmptyMap
  /\ call = [c \in Calls |-> NewCall]
  /\ written = [s \in Sigs |-> Unknown]
  /\ obs = [hashed |-> FALSE, fetched |-> FALSE, stored |-> FALSE]
  /\ UnitsIdle

\* One Series call after another on a caching interceptor, beside the Stores
\* of concurrent calls and the cache's evictions.
Next ==
  \/ \E c \in Solo, streamErr \in BOOLEAN : Intercept(c, SeriesMethod, streamErr) /\ UNCHANGED unitVars
  \/ \E c \in Solo : Close(c) /\ UNCHANGED unitVars
  \/ \E c \in Solo, m \in Reqs \cup {NotARequest}, tres \in SendOutcomes :
       FirstSendMsg(c, m, tres) /\ UNCHANGED unitVars
  \/ \E c \in Solo, tres \in SendOutcomes : SendMsgFetch2(c, tres) /\ UNCHANGED unitVars
  \/ \E c \in Solo, tres \in RecvOutcomes : RecvMsg(c, tres) /\ UNCHANGED unitVars
  \/ \E c \in Solo, taken \in BOOLEAN : \E k \in DOMAIN call[c].batch :
       StoreKey(c, k, taken) /\ UNCHANGED unitVars
  \/ \E k \in DOMAIN cache : Evict(k) /\ UNCHANGED unitVars
  \/ \E sig \in Sigs, seq \in Recordable : \E k \in DOMAIN putResponses(sig, seq) :
       OtherStoreKey(sig, seq, k) /\ UNCHANGED unitVars

Spec == Init /\ [][Next]_vars

\* Construction and call selection: the interceptor is built with any sizes,
\* streams are opened for any call identifier, and the calls run.
NextSelect ==
  \/ \E size \in 0..MaxBytes, itemSize \in 0..(MaxBytes + 1) :
       NewSeriesRequestcachingInterceptor(size, itemSize) /\ UNCHANGED unitVars
  \/ \E c \in Solo, method \in Methods, streamErr \in BOOLEAN :
       Intercept(c, method, streamErr) /\ UNCHANGED unitVars
  \/ \E c \in Solo : Close(c) /\ UNCHANGED unitVars
  \/ \E c \in Solo : RawSendMsg(c) /\ UNCHANGED unitVars
  \/ \E c \in Solo : RawRecvMsg(c) /\ UNCHANGED unitVars
  \/ \E c \in Solo, m \in Reqs \cup {NotARequest}, tres \in SendOutcomes :
       FirstSendMsg(c, m, tres) /\ UNCHANGED unitVars
  \/ \E c \in Solo, tres \in SendOutcomes : SendMsgFetch2(c, tres) /\ UNCHANGED unitVars
  \/ \E c \in Solo, tres \in RecvOutcomes : RecvMsg(c, tres) /\ UNCHANGED unitVars
  \/ \E c \in Solo, taken \in BOOLEAN : \E k \in DOMAIN call[c].batch :
       StoreKey(c, k, taken) /\ UNCHANGED unitVars

\* Before the constructor has run, the other units at rest.
InitSelect == InitUnbuilt /\ UnitsIdle

SpecSelect == InitSelect /\ [][NextSelect]_vars

\* Backend contents of any shape under the fingerprint of request 1: a count
\* key that is absent, a count, a negative number or no number, and indexed
\* keys that are absent, a message or no message.
Absent == <<"?">>
CountTexts == {FormatInt(0), FormatInt(1), FormatInt(2), FormatInt(0 - 1),
               <<"x">>, <<"2", "x">>}
Payloads == {Marshal(1), <<"z">>}

AnyContents(cnt, p0, p1) ==
  LET sig == hashReqTarget(1, Target)
      all == [k \in {NumKey(sig), IdxKey(sig, 0), IdxKey(sig, 1)} |->
                IF k = NumKey(sig) THEN cnt ELSE IF k = IdxKey(sig, 0) THEN p0 ELSE p1]
  IN  [k \in {x \in DOMAIN all : all[x] # Absent} |-> all[k]]

InitAny ==
  /\ built = "ok"
  /\ maxSize = 1
  /\ passthrough = FALSE
  /\ inmemoryCache = 1
  /\ cachedCalls = 0
  /\ \E cnt \in CountTexts \cup {Absent}, p0 \in Payloads \cup {Absent},
        p1 \in Payloads \cup {Absent} : cache = AnyContents(cnt, p0, p1)
  /\ call = [c \in Calls |-> NewCall]
  /\ written = [s \in Sigs |-> Unknown]
  /\ obs = [hashed |-> FALSE, fetched |-> FALSE, stored |-> FALSE]
  /\ UnitsIdle

\* One Series call against contents of any shape.
NextAny ==
  \/ \E c \in Solo, streamErr \in BOOLEAN : Intercept(c, SeriesMethod, streamErr) /\ UNCHANGED unitVars
  \/ \E c \in Solo, m \in Reqs \cup {NotARequest}, tres \in SendOutcomes :
       FirstSendMsg(c, m, tres) /\ UNCHANGED unitVars
  \/ \E c \in Solo, tres \in SendOutcomes : SendMsgFetch2(c, tres) /\ UNCHANGED unitVars
  \/ \E c \in Solo, tres \in RecvOutcomes : RecvMsg(c, tres) /\ UNCHANGED unitVars
  \/ \E c \in Solo, taken \in BOOLEAN : \E k \in DOMAIN call[c].batch :
       StoreKey(c, k, taken) /\ UNCHANGED unitVars

SpecAny == InitAny /\ [][NextAny]_vars

\* One Series call on which the caller sends more than once, beside the
\* Stores of concurrent calls.
NextMulti ==
  \/ \E c \in Solo, streamErr \in BOOLEAN :
       Intercept(c, SeriesMethod, streamErr) /\ UNCHANGED unitVars
  \/ \E c \in Solo, m \in Reqs \cup {NotARequest}, tres \in SendOutcomes :
       SendMsg(c, m, tres) /\ UNCHANGED unitVars
  \/ \E c \in Solo, tres \in SendOutcomes :
       SendMsgFetch2(c, tres) /\ UNCHANGED unitVars
  \/ \E c \in Solo, tres \in RecvOutcomes : RecvMsg(c, tres) /\ UNCHANGED unitVars
  \/ \E c \in Solo, taken \in BOOLEAN : \E k \in DOMAIN call[c].batch :
       StoreKey(c, k, taken) /\ UNCHANGED unitVars
  \/ \E sig \in Sigs, seq \in Recordable : \E k \in DOMAIN putResponses(sig, seq) :
       OtherStoreKey(sig, seq, k) /\ UNCHANGED unitVars

SpecMulti == Init /\ [][NextMulti]_vars

\* Calls with one fingerprint side by side: every call sends request 1, the
\* upstream answers call c with Upstream[c], no transport fails and the cache
\* takes every key.
Upstream == <<(<<1, 2>>), (<<2>>), (<<1>>)>>

\* The transport's next read for call c.
UpstreamRead(c) ==
  IF call[c].tRecv < Len(Upstream[c])
  THEN Out("msg", Upstream[c][call[c].tRecv + 1]) ELSE EOF

NextRace ==
  \/ \E c \in Calls : Intercept(c, SeriesMethod, FALSE) /\ UNCHANGED unitVars
  \/ \E c \in Calls : FirstSendMsg(c, 1, Out("nil", 0)) /\ UNCHANGED unitVars
  \/ \E c \in Calls : SendMsgFetch2(c, Out("nil", 0)) /\ UNCHANGED unitVars
  \/ \E c \in Calls : RecvMsg(c, UpstreamRead(c)) /\ UNCHANGED unitVars
  \/ \E c \in Calls : \E k \in DOMAIN call[c].batch :
       StoreKey(c, k, TRUE) /\ UNCHANGED unitVars

SpecRace == Init /\ [][NextRace]_vars

\* The tiered index cache alone: stores and fetches of postings and series in
\* any order, the disk engine failing lookups at will and the fallback
\* answering fetches with any split into hits, of value 1, and misses.
InitTier == InitUnbuilt /\ UnitsIdle

tierRest == <<grpcVars, remoteVars, builderVars>>

NextTier ==
  \/ \E blockID \in Blocks, l \in Labels, v \in Vals :
       StorePostings(blockID, l, v) /\ UNCHANGED tierRest
  \/ \E blockID \in Blocks, lbls \in LabelSlices, fault \in DiskFaults :
       \E found \in SUBSET Elems(lbls) :
       FetchMultiPostings(blockID, lbls, fault, found, 1) /\ UNCHANGED tierRest
  \/ \E blockID \in Blocks, id \in Refs, v \in Vals :
       StoreSeries(blockID, id, v) /\ UNCHANGED tierRest
  \/ \E blockID \in Blocks, ids \in RefSlices :
       \E found \in SUBSET Elems(ids) :
       FetchMultiSeries(blockID, ids, found, 1) /\ UNCHANGED tierRest

SpecTier == InitTier /\ [][NextTier]_vars

\* The remote cache backend alone: goroutines fetch side by side while
\* batches are stored and keys expire.
InitRemote == InitUnbuilt /\ UnitsIdle

remoteRest == <<grpcVars, tierVars, builderVars>>

NextRemote ==
  \/ \E data \in Batches : \E taken \in SUBSET DOMAIN data :
       RueidisStore(data, taken) /\ UNCHANGED remoteRest
  \/ \E k \in RKeys : RueidisExpire(k) /\ UNCHANGED remoteRest
  \/ \E g \in Goroutines, keys \in KeySlices :
       RueidisFetch(g, keys) /\ UNCHANGED remoteRest
  \/ \E g \in Goroutines, fail \in BOOLEAN :
       RueidisGetMulti(g, fail) /\ UNCHANGED remoteRest
  \/ \E g \in Goroutines : RueidisHits(g) /\ UNCHANGED remoteRest

SpecRemote == InitRemote /\ [][NextRemote]_vars

\* A lookup table builder made for any number of elements, and calls on it.
InitBuilder ==
  /\ InitUnbuilt /\ TierIdle /\ RemoteIdle
  /\ \E n \in 0..MaxElems : NewLookupTableBuilder(n)

builderRest == <<grpcVars, tierVars, remoteVars>>

NextBuilder ==
  \/ \E s \in Strings : PutString(s) /\ UNCHANGED builderRest
  \/ GetTable /\ UNCHANGED builderRest

SpecBuilder == InitBuilder /\ [][NextBuilder]_vars

\* ------------------------------------------------------------------ claims
\* The other spelling of the cached method's identifier.
SeriesMethodBare == <<"thanos.Store", "/", "Series">>

\* Whether the batch b is the complete entry of the sequence seq under sig:
\* the count key with the decimal text of its length, and one key per message.
CompleteEntry(b, sig, seq) ==
  /\ DOMAIN b = {NumKey(sig)} \cup {IdxKey(sig, i) : i \in 0..(Len(seq) - 1)}
  /\ b[NumKey(sig)] = FormatNat(Len(seq))
  /\ \A i \in 0..(Len(seq) - 1) : b[IdxKey(sig, i)] = <<"pb">> \o FormatNat(seq[i + 1])

\* Whether the bytes are a non-negative decimal integer.
StrictCount(b) == b # <<>> /\ \A i \in 1..Len(b) : IsDigit(b[i])

\* C1: a call whose lookup found the entry one recording call stored whole
\* from the sequence it received (every key still there) delivers that
\* sequence in order to its first reads, and end-of-stream to the next.
RoundTrip ==
  \A c \in Calls :
    LET r == call[c] IN
    (r.cachedResponsesAvailable /\ r.given = 1 /\ r.pc = "idle" /\ r.hitEntry # Unknown)
      => /\ Len(r.hitEntry) >= 1
         /\ IF r.replayReads <= Len(r.hitEntry)
            THEN r.delivered = SubSeq(r.hitEntry, 1, r.replayReads)
            ELSE r.delivered = r.hitEntry /\ r.op = "recv" /\ r.out = EOF

\* C1's case: a recorded sequence of two different messages was replayed to
\* its end.
RoundTripWitness ==
  \E c \in Calls :
    LET r == call[c] IN
    /\ r.cachedResponsesAvailable /\ r.hitEntry # Unknown
    /\ Len(r.hitEntry) = 2 /\ r.hitEntry[1] # r.hitEntry[2]
    /\ r.replayReads = 3 /\ r.delivered = r.hitEntry /\ r.out = EOF

\* C2: a read of a call marked as replaying never invokes the transport; it
\* removes and delivers the first buffered message, or returns end-of-stream
\* when the buffer is empty.
ReplayFromBufferOnly ==
  [][\A c \in Calls :
       (call[c].cachedResponsesAvailable /\ call'[c].nRecv = call[c].nRecv + 1)
         => /\ call'[c].tRecv = call[c].tRecv
            /\ call'[c].tout = NoOut
            /\ IF call[c].responses = <<>>
               THEN call'[c].out = EOF /\ call'[c].responses = <<>>
               ELSE /\ call'[c].out = Out("msg", Head(call[c].responses))
                    /\ call'[c].responses = Tail(call[c].responses)]_vars

\* C2's case: a replaying call has delivered its buffer and then met
\* end-of-stream without a transport read.
ReplayWitness ==
  \E c \in Calls :
    LET r == call[c] IN
    /\ r.cachedResponsesAvailable /\ Len(r.delivered) = 2 /\ r.responses = <<>>
    /\ r.op = "recv" /\ r.out = EOF /\ r.tRecv = 0 /\ r.nRecv = 3

\* C3: once a transport read of a recording call has failed with an error
\* other than end-of-stream, the call hands no entry to Store.
NoStoreAfterError ==
  \A c \in Calls : call[c].errored => call[c].pc # "storing"

\* C4: a lookup that found the count key but another number of indexed keys
\* leaves the call recording: nothing is delivered from the cache, every read
\* goes to the transport, and end-of-stream with a non-empty buffer hands the
\* complete entry of the received sequence to Store.
PartialEntryImmunity ==
  \A c \in Calls :
    LET r == call[c] IN
    (r.partial /\ r.given = 1 /\ r.pc \in {"idle", "storing"})
      => /\ ~r.cachedResponsesAvailable
         /\ r.delivered = <<>>
         /\ r.tRecv = r.nRecv
         /\ (r.op = "recv" /\ r.out = EOF /\ r.got # <<>>)
              => CompleteEntry(r.stored, r.hashedReq, r.got)

\* C4's case: after a partial lookup the call read to end-of-stream and
\* stored what it received.
PartialEntryWitness ==
  \E c \in Calls :
    LET r == call[c] IN
    /\ r.partial /\ r.pc = "idle" /\ r.op = "recv" /\ r.out = EOF
    /\ Len(r.got) = 2 /\ DOMAIN r.stored \subseteq DOMAIN cache

ForwardedOnceAfterLookup ==
  \A c \in Calls :
    LET r == call[c] IN
    r.st = "wrapped"
      => /\ r.pc = "fetch2" => r.fwd = r.given - 1
         /\ r.pc \in {"idle", "storing"}
              => (r.fwd = r.given /\ (r.given > 0 => r.sent = r.m))
         /\ (r.pc = "idle" /\ r.op = "send")
              => (r.out = r.tout /\ r.tout \in SendOutcomes)

\* C6's case: a lookup succeeded, the request went out and the transport's
\* failure came back to the caller.
ForwardedWitness ==
  \E c \in Calls :
    LET r == call[c] IN
    /\ r.cachedResponsesAvailable /\ r.op = "send" /\ r.m \in Reqs
    /\ r.given = 1 /\ r.fwd = 1 /\ r.out = Out("err", 2)

\* C7: while a call records, what the caller gets from the send and from
\* each read is what the transport produced for it, whatever Store does.
TransparentOnMiss ==
  \A c \in Calls :
    LET r == call[c] IN
    (r.st = "wrapped" /\ ~r.cachedResponsesAvailable
     /\ r.pc \in {"idle", "storing"} /\ r.op # "none")
      => (r.out = r.tout /\ r.tout # NoOut)

\* C7's case: a recording call got the transport's error after a message, and
\* another got end-of-stream while the cache dropped a key of its entry.
TransparentWitness ==
  \E c \in Calls :
    LET r == call[c] IN
    /\ r.st = "wrapped" /\ ~r.cachedResponsesAvailable /\ r.hashedReq # <<>>
    /\ r.op = "recv" /\ r.pc = "idle" /\ r.got # <<>>
    /\ \/ r.out = Out("err", 1)
       \/ r.out = EOF /\ ~(DOMAIN r.stored \subseteq DOMAIN cache)

\* C8: an interceptor built with size zero hands every call its underlying
\* stream: no call is wrapped, nothing is hashed, fetched or stored, and the
\* counter stays at zero.
PassThroughMode ==
  (built = "ok" /\ maxSize = 0)
    => /\ \A c \in Calls : call[c].st # "wrapped"
       /\ ~obs.hashed /\ ~obs.fetched /\ ~obs.stored
       /\ DOMAIN cache = {}
       /\ cachedCalls = 0

\* C8's case: with size zero a call of the cached method was opened, and the
\* caller sent and read on it.
PassThroughWitness ==
  /\ built = "ok" /\ maxSize = 0
  /\ \E c \in Calls : /\ call[c].method = SeriesMethod /\ call[c].st = "raw"
                      /\ call[c].given = 1 /\ call[c].nRecv = 1

CallSelection ==
  (built = "ok" /\ ~passthrough)
    => \A c \in Calls :
         call[c].st # "none"
           => call[c].st = IF call[c].streamErr THEN "failed"
                           ELSE IF call[c].method \in {SeriesMethod, SeriesMethodBare}
                           THEN "wrapped"
                           ELSE "raw"

\* C10's case: the cached method was wrapped and read from.
CallSelectionWitness ==
  /\ built = "ok" /\ ~passthrough
  /\ \E c \in Calls : /\ call[c].st = "wrapped" /\ call[c].method = SeriesMethod
                      /\ call[c].nRecv > 0

\* A sequence without repeated elements.
NoDuplicates(s) == \A i, j \in 1..Len(s) : s[i] = s[j] => i = j

\* C11: whatever the disk lookup and the fallback come to, the hits and the
\* misses FetchMultiPostings returns hold every requested label exactly once:
\* none in both, none repeated, none left out, none added.
MergeComplete ==
  op.name = "FetchMultiPostings" =>
    /\ (DOMAIN ret.hits) \cap Elems(ret.misses) = {}
    /\ NoDuplicates(ret.misses)
    /\ (DOMAIN ret.hits) \cup Elems(ret.misses) = Elems(op.lbls)

\* C12: when the disk lookup of the routed label fails with another error
\* than not-found, on the get or on the copy of the value, the label is among
\* the returned misses and not among the hits.
DiskErrorIsMiss ==
  (op.name = "FetchMultiPostings" /\ op.disk \in {"geterr", "copyerr"}) =>
    /\ coreLabel \in Elems(ret.misses)
    /\ coreLabel \notin DOMAIN ret.hits

InputUnmodified == op.name = "FetchMultiPostings" => ret.lbls = op.lbls

\* C14: the counter of fully cached calls is the number of calls that
\* entered REPLAY: a successful lookup adds one for its call, a failed one
\* nothing, whatever is read or stored afterwards.
CounterCountsReplayCalls ==
  cachedCalls = Cardinality({c \in Calls : call[c].cachedResponsesAvailable})

\* C15: every Store is one whole entry of the buffer: the count key with the
\* decimal text of the buffer's length n >= 1, the keys 0 .. n-1 with the
\* serialized messages in the buffer's order and nothing else, for five
\* minutes; a stream ending on an empty buffer stores nothing.
StoresWholeEntries ==
  \A c \in Calls :
    LET rec == call[c]
        n == Len(rec.responses)
    IN  /\ rec.pc = "storing" =>
             /\ n >= 1
             /\ DOMAIN rec.stored =
                  {rec.hashedReq \o <<"-", "n", "u", "m">>} \cup
                  {rec.hashedReq \o <<"-">> \o FormatNat(i) : i \in 0..(n - 1)}
             /\ rec.stored[rec.hashedReq \o <<"-", "n", "u", "m">>] = FormatNat(n)
             /\ \A i \in 0..(n - 1) :
                  rec.stored[rec.hashedReq \o <<"-">> \o FormatNat(i)] =
                    <<"pb">> \o FormatNat(rec.responses[i + 1])
             /\ rec.ttl = 300
        /\ rec.batch # EmptyMap =>
             /\ rec.pc = "storing"
             /\ \A k \in DOMAIN rec.batch : rec.batch[k] = rec.stored[k]
        /\ (rec.st = "wrapped" /\ rec.op = "recv" /\ rec.tout = EOF /\ n = 0) =>
             (rec.stored = EmptyMap /\ rec.pc # "storing")

\* A recording call read two messages and end-of-stream and is storing.
StoresWholeWitness ==
  \E c \in Calls :
    /\ call[c].pc = "storing"
    /\ Len(call[c].responses) = 2
    /\ Cardinality(DOMAIN call[c].stored) = 3

\* C17: while no request has been sent the fingerprint is empty and a read is
\* the transport's read, buffering and persisting nothing; once a request has
\* been sent, no later send starts a lookup, changes the fingerprint or the
\* buffer, or turns the call to REPLAY.
LookupOncePerCall ==
  [][\A c \in Calls :
       /\ (call[c].st = "wrapped" /\ call[c].hashedReq = <<>>
             /\ call'[c].nRecv = call[c].nRecv + 1) =>
            /\ call'[c].tRecv = call[c].tRecv + 1
            /\ call'[c].out = call'[c].tout
            /\ call'[c].responses = <<>>
            /\ call'[c].pc = "idle"
       /\ (call[c].hashedReq # <<>> /\ call'[c].given = call[c].given + 1) =>
            /\ call'[c].pc # "fetch2"
            /\ call'[c].hashedReq = call[c].hashedReq
            /\ call'[c].responses = call[c].responses
       /\ (call'[c].cachedResponsesAvailable /\ ~call[c].cachedResponsesAvailable) =>
            call[c].given = 1]_vars

\* C18: a Fetch adds the number of keys it was asked to the requests counter
\* and the number of entries it returns to the hits counter; what it returns
\* are the requested keys the service holds, with their values, and nothing
\* when the multi-get failed; so the hits never exceed the requests.
FetchAccounting ==
  [][/\ hits' <= requests'
     /\ \A g \in Goroutines :
          /\ (fetch[g].pc = "idle" /\ fetch'[g].pc = "get") =>
               /\ requests' = requests + Len(fetch'[g].keys)
               /\ hits' = hits
          /\ (fetch[g].pc = "get" /\ fetch'[g].pc = "hits") =>
               /\ requests' = requests /\ hits' = hits
               /\ DOMAIN fetch'[g].results =
                    IF fetch'[g].failed THEN {}
                    ELSE {k \in DOMAIN redis : \E i \in 1..Len(fetch[g].keys) :
                                                 fetch[g].keys[i] = k}
               /\ \A k \in DOMAIN fetch'[g].results :
                    fetch'[g].results[k] = redis[k]
          /\ (fetch[g].pc = "hits" /\ fetch'[g].pc = "idle") =>
               /\ hits' = hits + Cardinality(DOMAIN fetch[g].results)
               /\ requests' = requests
               /\ fetch'[g].results = fetch[g].results]_vars

\* One Fetch returned a key it found beside a key the service did not hold,
\* another failed, while a third is between its two counts.
FetchAccountingWitness ==
  /\ hits >= 1
  /\ hits < requests
  /\ \E g, h \in Goroutines :
       /\ g # h
       /\ fetch[g].done /\ fetch[g].pc = "idle"
       /\ Len(fetch[g].keys) = 2 /\ Cardinality(DOMAIN fetch[g].results) = 1
       /\ fetch[h].pc = "hits" /\ fetch[h].failed

\* C20: PutString of a string already stored returns the reference the string
\* was given, without an error, and changes neither table nor the counter,
\* also in a full builder; MaxElementsReached is returned only for a string
\* that is not stored.
PutStringIdempotent ==
  [][put'.op = "PutString" =>
       /\ put'.s \in DOMAIN reverseTable =>
            /\ put'.err = "nil"
            /\ put'.num = reverseTable[put'.s]
            /\ UNCHANGED <<table, reverseTable, current>>
       /\ put'.err = MaxElementsReached => put'.s \notin DOMAIN reverseTable]_vars

\* C16: there is no single flight. A call that looks up while nothing is
\* persisted misses, however many calls with its fingerprint are under way;
\* a recording call reads the upstream for every read and at end-of-stream
\* hands its own whole entry to Store; each key stored takes the value of
\* the Store that wrote it last.
NoSingleFlight ==
  [][\A c \in Calls :
       /\ (call[c].given = 0 /\ call'[c].given = 1 /\ cache = EmptyMap) =>
            /\ call'[c].pc = "idle"
            /\ ~call'[c].cachedResponsesAvailable
            /\ call'[c].fwd = 1
       /\ (call'[c].given = 1 /\ call'[c].pc # "fetch2"
             /\ ~call'[c].cachedResponsesAvailable) =>
            /\ call'[c].tRecv = call'[c].nRecv
            /\ (call'[c].nRecv = call[c].nRecv + 1 /\ call'[c].tout = EOF
                  /\ call'[c].got # <<>>) =>
                 /\ call'[c].pc = "storing"
                 /\ CompleteEntry(call'[c].batch, call'[c].hashedReq, call'[c].got)
       /\ \A k \in DOMAIN call[c].batch :
            k \notin DOMAIN call'[c].batch => cache'[k] = call[c].batch[k]]_vars

\* Two calls that both missed recorded sequences of different lengths and
\* stored them; a third call replayed to end-of-stream a sequence that is
\* neither of the two.
MixedEntryWitness ==
  \E a, b, r \in Calls :
    /\ a # b /\ a # r /\ b # r
    /\ call[a].seenCount = <<"?">> /\ call[b].seenCount = <<"?">>
    /\ call[a].stored # EmptyMap /\ call[a].pc = "idle"
    /\ call[b].stored # EmptyMap /\ call[b].pc = "idle"
    /\ Len(call[a].got) # Len(call[b].got)
    /\ call[r].cachedResponsesAvailable
    /\ call[r].op = "recv" /\ call[r].out = EOF
    /\ call[r].delivered # call[a].got
    /\ call[r].delivered # call[b].got

\* The table and the reverse table are each other's inverse, the references
\* given are 0 .. current-1, and current is at most maxElements.
TablesInverse(t, r, cur, max) ==
  /\ DOMAIN t = 0..(cur - 1)
  /\ DOMAIN r = {t[n] : n \in DOMAIN t}
  /\ \A n \in DOMAIN t : r[t[n]] = n
  /\ \A x \in DOMAIN r : t[r[x]] = x
  /\ \A x, y \in DOMAIN r : r[x] = r[y] => x = y
  /\ Cardinality(DOMAIN r) = cur
  /\ cur <= max

\* C21: after any PutString calls the table and the reverse table are inverse
\* bijections between the references 0 .. current-1 and the stored strings,
\* current does not exceed maxElements, and a call that returns
\* MaxElementsReached changes nothing.
BuilderTablesConsistent ==
  [][/\ TablesInverse(table, reverseTable, current, maxElements)
     /\ TablesInverse(table', reverseTable', current', maxElements')
     /\ (put'.op = "PutString" /\ put'.err = MaxElementsReached) =>
          UNCHANGED <<table, reverseTable, current, maxElements>>
     /\ (put'.op = "PutString" /\ put'.err = "nil") =>
          /\ put'.s \in DOMAIN reverseTable'
          /\ reverseTable'[put'.s] = put'.num]_vars

\* A builder made for three elements holds three strings and has turned a
\* fourth away.
BuilderFullWitness ==
  /\ maxElements = 3
  /\ current = 3
  /\ Cardinality(DOMAIN reverseTable) = 3
  /\ put.op = "PutString"
  /\ put.err = MaxElementsReached
  /\ put.s \notin DOMAIN reverseTable

====
